---- MODULE Spec2Model ----
(***************************************************************************)
(* Model of parse.go of gocronometer: the three CSV export parsers         *)
(* ParseServingsExport, ParseExerciseExport, ParseBiometricRecordsExport   *)
(* and their helpers parseDateTime, parseFloat and parseNutrientFloat.     *)
(*                                                                         *)
(* Cell strings are sequences of one-character strings, so that splitting, *)
(* searching and number/time parsing are computed character by character.  *)
(* Column names are atomic strings: the code only compares them for        *)
(* equality in its switch statements.  The micro sign of the column names  *)
(* is written "u" ("(ug)").                                                *)
(***************************************************************************)
EXTENDS Naturals, Integers, Sequences, FiniteSets, TLC

VARIABLES fn, tz, location, pc, lineNum, headers, input, out, ret

vars == <<fn, tz, location, pc, lineNum, headers, input, out, ret>>

(***************************************************************************)
(* Bounds of the model.                                                    *)
(***************************************************************************)
MaxCols == 4
MaxRows == 2

(***************************************************************************)
(* Strings.                                                                *)
(***************************************************************************)
Digits == {"0", "1", "2", "3", "4", "5", "6", "7", "8", "9"}

IsDigit(s, i) == i >= 1 /\ i <= Len(s) /\ s[i] \in Digits

DigitVal(c) ==
  CASE c = "0" -> 0 [] c = "1" -> 1 [] c = "2" -> 2 [] c = "3" -> 3
    [] c = "4" -> 4 [] c = "5" -> 5 [] c = "6" -> 6 [] c = "7" -> 7
    [] c = "8" -> 8 [] c = "9" -> 9

\* atoi of the digit string s[a..b] (all positions hold digits)
RECURSIVE Num(_, _, _)
Num(s, a, b) == IF b < a THEN 0 ELSE 10 * Num(s, a, b - 1) + DigitVal(s[b])

\* strings.Index(s, c) for a one-character c; 0 when c does not occur
Index(s, c) ==
  IF \E i \in 1..Len(s) : s[i] = c
  THEN CHOOSE i \in 1..Len(s) : s[i] = c /\ \A j \in 1..(i - 1) : s[j] # c
  ELSE 0

Contains_Never(s, c) == FALSE

\* strings.Contains(s, c) for a one-character c
Contains(s, c) == Index(s, c) # 0

\* a split at the first run of spaces, as strings.Fields would cut it
SplitN2_Run(s) ==
  LET i == Index(s, " ")
      j == CHOOSE k \in i..(Len(s) + 1) :
             /\ \A m \in i..(k - 1) : s[m] = " "
             /\ (k = Len(s) + 1 \/ s[k] # " ")
  IN  IF i = 0 THEN <<s>>
      ELSE <<SubSeq(s, 1, i - 1), SubSeq(s, j, Len(s))>>

\* strings.SplitN(s, " ", 2)
SplitN2(s) ==
  LET i == Index(s, " ")
  IN  IF i = 0 THEN <<s>>
      ELSE <<SubSeq(s, 1, i - 1), SubSeq(s, i + 1, Len(s))>>

(***************************************************************************)
(* Errors.  An error is its kind (the return site's failure class) and its *)
(* message, a sequence of parts: literal text of the format string, or an  *)
(* argument of the format (a %q/%s-formatted cell string in raw).          *)
(***************************************************************************)
Lit(text) == [lit |-> text, raw |-> <<>>]
Arg(s) == [lit |-> "%", raw |-> s]

NilErr == [kind |-> "nil", msg |-> <<>>]
Errorf(kind, msg) == [kind |-> kind, msg |-> msg]

(***************************************************************************)
(* strconv.ParseFloat, for strings over digits and ".", the decimal        *)
(* grammar digits [ "." digits ] with at least one digit; every other      *)
(* string of the model's alphabet is a syntax error.  A number is          *)
(* m * 10^-e with no trailing zero in the fraction.                        *)
(***************************************************************************)
RECURSIVE Normal(_, _)
Normal(m, e) ==
  IF e > 0 /\ m % 10 = 0 THEN Normal(m \div 10, e - 1) ELSE [m |-> m, e |-> e]

ZeroFloat == [m |-> 0, e |-> 0]

StrconvParseFloat(s) ==
  LET dot == Index(s, ".")
      ip == IF dot = 0 THEN s ELSE SubSeq(s, 1, dot - 1)
      fp == IF dot = 0 THEN <<>> ELSE SubSeq(s, dot + 1, Len(s))
      ok == /\ \A i \in 1..Len(ip) : ip[i] \in Digits
            /\ \A i \in 1..Len(fp) : fp[i] \in Digits
            /\ Len(ip) + Len(fp) >= 1
  IN  IF ok
      THEN [f |-> Normal(Num(ip \o fp, 1, Len(ip) + Len(fp)), Len(fp)),
            err |-> NilErr]
      ELSE [f |-> ZeroFloat,
            err |-> Errorf("syntax", <<Lit("strconv.ParseFloat: parsing "),
                                       Arg(s), Lit(": invalid syntax")>>)]

parseFloat_Strict(s) == StrconvParseFloat(s)

\* parseFloat wraps strconv.ParseFloat but interprets an empty string as 0
parseFloat(s) ==
  IF s = <<>> THEN [f |-> ZeroFloat, err |-> NilErr]
  ELSE StrconvParseFloat(s)

parseNutrientFloat(value, nutrient) ==
  LET r == parseFloat(value)
  IN  IF r.err # NilErr
      THEN [f |-> ZeroFloat,
            err |-> Errorf("coercion",
                      <<Lit("parsing "), Lit(nutrient), Lit(" value "),
                        Arg(value), Lit(": ")>> \o r.err.msg)]
      ELSE [f |-> r.f, err |-> NilErr]

(***************************************************************************)
(* time.ParseInLocation for the layout DateTimeFormat "2006-01-02 15:04":  *)
(* a 4-digit year, "-", a 2-digit month, "-", a 2-digit day, a run of      *)
(* spaces, an hour of one or two digits, ":", a 2-digit minute, and        *)
(* nothing more.  The modelled zones have no daylight-saving gaps, so the  *)
(* wall-clock fields of the result are the parsed ones.                    *)
(***************************************************************************)
IsLeap(year) == year % 4 = 0 /\ (year % 100 # 0 \/ year % 400 = 0)

daysIn(month, year) ==
  IF month = 2 THEN (IF IsLeap(year) THEN 29 ELSE 28)
  ELSE IF month \in {4, 6, 9, 11} THEN 30 ELSE 31

ZeroTime == [year |-> 1, month |-> 1, day |-> 1, hour |-> 0, min |-> 0,
             loc |-> "UTC"]

ParseError(value, why) ==
  Errorf("time", <<Lit("parsing time "), Arg(value), Lit(why)>>)

\* first position at or after i that holds no space
RECURSIVE cutspace(_, _)
cutspace(s, i) == IF i <= Len(s) /\ s[i] = " " THEN cutspace(s, i + 1) ELSE i

ParseInLocation(value, loc) ==
  LET bad == [t |-> ZeroTime, err |-> ParseError(value, ": cannot parse")]
      h == cutspace(value, 11)
      c == IF IsDigit(value, h + 1) THEN h + 2 ELSE h + 1
      year == Num(value, 1, 4)
      month == Num(value, 6, 7)
      day == Num(value, 9, 10)
      hour == Num(value, h, c - 1)
      min == Num(value, c + 1, c + 2)
  IN  IF ~(\A i \in 1..4 : IsDigit(value, i)) THEN bad
      ELSE IF ~(Len(value) >= 5 /\ value[5] = "-") THEN bad
      ELSE IF ~(IsDigit(value, 6) /\ IsDigit(value, 7)) THEN bad
      ELSE IF month <= 0 \/ 12 < month
        THEN [t |-> ZeroTime, err |-> ParseError(value, ": month out of range")]
      ELSE IF ~(Len(value) >= 8 /\ value[8] = "-") THEN bad
      ELSE IF ~(IsDigit(value, 9) /\ IsDigit(value, 10)) THEN bad
      ELSE IF Len(value) >= 11 /\ value[11] # " " THEN bad
      ELSE IF ~IsDigit(value, h) THEN bad
      ELSE IF 24 <= hour
        THEN [t |-> ZeroTime, err |-> ParseError(value, ": hour out of range")]
      ELSE IF ~(Len(value) >= c /\ value[c] = ":") THEN bad
      ELSE IF ~(IsDigit(value, c + 1) /\ IsDigit(value, c + 2)) THEN bad
      ELSE IF 60 <= min
        THEN [t |-> ZeroTime, err |-> ParseError(value, ": minute out of range")]
      ELSE IF Len(value) > c + 2
        THEN [t |-> ZeroTime, err |-> ParseError(value, ": extra text")]
      ELSE IF day < 1 \/ day > daysIn(month, year)
        THEN [t |-> ZeroTime, err |-> ParseError(value, ": day out of range")]
      ELSE [t |-> [year |-> year, month |-> month, day |-> day,
                   hour |-> hour, min |-> min, loc |-> loc],
            err |-> NilErr]

\* t, err := time.ParseInLocation(...); if err != nil { ... }; return t, nil
Parsed(dateTimeStr, r) ==
  IF r.err # NilErr
  THEN [t |-> ZeroTime,
        err |-> Errorf("time",
                  <<Lit("invalid date/time format "), Arg(dateTimeStr),
                    Lit(": ")>> \o r.err.msg)]
  ELSE [t |-> r.t, err |-> NilErr]

\* dateTimeStr := date + " " + timeStr, parsed with the location
Combined(dateTimeStr, loc) == Parsed(dateTimeStr, ParseInLocation(dateTimeStr, loc))

\* parseDateTime handles parsing of Cronometer date+time strings
parseDateTime(date, timeStr, loc) ==
  Combined(date \o <<" ">>
             \o (IF timeStr = <<>> THEN <<"0", "0", ":", "0", "0">> ELSE timeStr),
           IF loc = "nil" THEN "UTC" ELSE loc)

\* fmt.Errorf(prefix + ": %w", err)
Wrap(prefix, err) == Errorf(err.kind, <<Lit(prefix), Lit(": ")>> \o err.msg)

(***************************************************************************)
(* Records.  The nutrient cases of the switch of ParseServingsExport are   *)
(* the table of <<column name, nutrient label, record field>>.             *)
(***************************************************************************)
NutrientCases == {
    <<"Energy (kcal)", "energy", "EnergyKcal">>
  , <<"Caffeine (mg)", "caffeine", "CaffeineMg">>
  , <<"Water (g)", "water", "WaterG">>
  , <<"B1 (Thiamine) (mg)", "vitamin B1", "B1Mg">>
  , <<"B2 (Riboflavin) (mg)", "vitamin B2", "B2Mg">>
  , <<"B3 (Niacin) (mg)", "vitamin B3", "B3Mg">>
  , <<"B5 (Pantothenic Acid) (mg)", "vitamin B5", "B5Mg">>
  , <<"B6 (Pyridoxine) (mg)", "vitamin B6", "B6Mg">>
  , <<"B12 (Cobalamin) (ug)", "vitamin B12", "B12Mg">>
  , <<"Biotin (ug)", "biotin", "BiotinUg">>
  , <<"Choline (mg)", "choline", "CholineMg">>
  , <<"Folate (ug)", "folate", "FolateUg">>
  , <<"Vitamin A (IU)", "vitamin A", "VitaminAUI">>
  , <<"Vitamin C (mg)", "vitamin C", "VitaminCMg">>
  , <<"Vitamin D (IU)", "vitamin D", "VitaminDUI">>
  , <<"Vitamin E (mg)", "vitamin E", "VitaminEMg">>
  , <<"Vitamin K (ug)", "vitamin K", "VitaminKMg">>
  , <<"Calcium (mg)", "calcium", "CalciumMg">>
  , <<"Chromium (ug)", "chromium", "ChromiumUg">>
  , <<"Copper (mg)", "copper", "CopperMg">>
  , <<"Fluoride (ug)", "fluoride", "FluorideUg">>
  , <<"Iodine (ug)", "iodine", "IodineUg">>
  , <<"Iron (mg)", "iron", "IronMg">>
  , <<"Magnesium (mg)", "magnesium", "MagnesiumMg">>
  , <<"Manganese (mg)", "manganese", "ManganeseMg">>
  , <<"Phosphorus (mg)", "phosphorus", "PhosphorusMg">>
  , <<"Potassium (mg)", "potassium", "PotassiumMg">>
  , <<"Selenium (ug)", "selenium", "SeleniumUg">>
  , <<"Sodium (mg)", "sodium", "SodiumMg">>
  , <<"Zinc (mg)", "zinc", "ZincMg">>
  , <<"Carbs (g)", "carbohydrates", "CarbsG">>
  , <<"Fiber (g)", "fiber", "FiberG">>
  , <<"Fructose (g)", "fructose", "FructoseG">>
  , <<"Galactose (g)", "galactose", "GalactoseG">>
  , <<"Glucose (g)", "glucose", "GlucoseG">>
  , <<"Lactose (g)", "lactose", "LactoseG">>
  , <<"Maltose (g)", "maltose", "MaltoseG">>
  , <<"Starch (g)", "starch", "StarchG">>
  , <<"Sucrose (g)", "sucrose", "SucroseG">>
  , <<"Sugars (g)", "sugars", "SugarsG">>
  , <<"Net Carbs (g)", "net carbs", "NetCarbsG">>
  , <<"Fat (g)", "fat", "FatG">>
  , <<"Cholesterol (mg)", "cholesterol", "CholesterolMg">>
  , <<"Monounsaturated (g)", "monounsaturated fat", "MonounsaturatedG">>
  , <<"Polyunsaturated (g)", "polyunsaturated fat", "PolyunsaturatedG">>
  , <<"Saturated (g)", "saturated fat", "SaturatedG">>
  , <<"Trans-Fats (g)", "trans fat", "TransFatG">>
  , <<"Omega-3 (g)", "omega-3", "Omega3G">>
  , <<"Omega-6 (g)", "omega-6", "Omega6G">>
  , <<"Cystine (g)", "cystine", "CystineG">>
  , <<"Histidine (g)", "histidine", "HistidineG">>
  , <<"Isoleucine (g)", "isoleucine", "IsoleucineG">>
  , <<"Leucine (g)", "leucine", "LeucineG">>
  , <<"Lysine (g)", "lysine", "LysineG">>
  , <<"Methionine (g)", "methionine", "MethionineG">>
  , <<"Phenylalanine (g)", "phenylalanine", "PhenylalanineG">>
  , <<"Protein (g)", "protein", "ProteinG">>
  , <<"Threonine (g)", "threonine", "ThreonineG">>
  , <<"Tryptophan (g)", "tryptophan", "TryptophanG">>
  , <<"Tyrosine (g)", "tyrosine", "TyrosineG">>
  , <<"Valine (g)", "valine", "ValineG">>
  }

NutrientColumns == {c[1] : c \in NutrientCases}

NutrientCase(columnName) == CHOOSE c \in NutrientCases : c[1] = columnName

ServingFloatFields == {"QuantityValue"} \cup {c[3] : c \in NutrientCases}

ServingRecord ==
  [f \in ServingFloatFields |-> ZeroFloat]
    @@ [f \in {"Group", "FoodName", "QuantityUnits", "Category"} |-> <<>>]
    @@ [RecordedTime |-> ZeroTime]

ExerciseRecord ==
  [RecordedTime |-> ZeroTime, Exercise |-> <<>>, Minutes |-> ZeroFloat,
   CaloriesBurned |-> ZeroFloat]

BiometricRecord ==
  [RecordedTime |-> ZeroTime, Metric |-> <<>>, Unit |-> <<>>,
   Amount |-> ZeroFloat]

\* headers[i]: the zero value "" for a position the header row does not have
HeaderAt(hdrs, i) == IF i \in DOMAIN hdrs THEN hdrs[i] ELSE ""

\* the row state at the top of the cell loop: date, timeStr, the fresh record
RowState(rec) == [rec |-> rec, date |-> <<>>, timeStr |-> <<>>,
                  err |-> NilErr, at |-> 0]

Fail(st, i, err) == [st EXCEPT !.err = err, !.at = i]

Unrecognized_Error(st, i, columnName, v) ==
  Fail(st, i, Errorf("format", <<Lit("unknown column "), Lit(columnName)>>))

\* a column name that matches no case of the switch: the cell is skipped
Unrecognized(st, i, columnName, v) == st

StageTime_Eager(st, v) ==
  IF st.date = <<>> THEN st ELSE [st EXCEPT !.timeStr = v]

\* case "Time": timeStr = v
StageTime(st, v) == [st EXCEPT !.timeStr = v]

\* case "Day": date = v
StageDate(st, v) == [st EXCEPT !.date = v]

(***************************************************************************)
(* The switch on columnName of each entry point, applied to cell i with    *)
(* value v of a row; st is the row state.                                  *)
(***************************************************************************)
ServingsCase(st, i, columnName, v) ==
  CASE columnName = "Day" -> StageDate(st, v)
    [] columnName = "Time" -> StageTime(st, v)
    [] columnName = "Group" -> [st EXCEPT !.rec.Group = v]
    [] columnName = "Food Name" -> [st EXCEPT !.rec.FoodName = v]
    [] columnName = "Amount" ->
         LET parts == SplitN2(v)
         IN  IF Len(parts) < 2
             THEN Fail(st, i, Errorf("format",
                    <<Lit("invalid amount format "), Arg(v),
                      Lit(", expected 'value unit'")>>))
             ELSE LET r == parseFloat(parts[1])
                  IN  IF r.err # NilErr
                      THEN Fail(st, i, Errorf("coercion",
                             <<Lit("parsing "), Lit("quantity value"), Lit(" "),
                               Arg(parts[1]), Lit(": ")>> \o r.err.msg))
                      ELSE [st EXCEPT !.rec.QuantityValue = r.f,
                                      !.rec.QuantityUnits = parts[2]]
    [] columnName \in NutrientColumns ->
         LET c == NutrientCase(columnName)
             r == parseNutrientFloat(v, c[2])
         IN  IF r.err # NilErr THEN Fail(st, i, r.err)
             ELSE [st EXCEPT !.rec[c[3]] = r.f]
    [] columnName = "Category" -> [st EXCEPT !.rec.Category = v]
    [] OTHER -> Unrecognized(st, i, columnName, v)

ExerciseCase(st, i, columnName, v) ==
  CASE columnName = "Day" -> StageDate(st, v)
    [] columnName = "Time" -> StageTime(st, v)
    [] columnName = "Exercise" -> [st EXCEPT !.rec.Exercise = v]
    [] columnName = "Minutes" ->
         LET r == parseFloat(v)
         IN  IF r.err # NilErr
             THEN Fail(st, i, Errorf("coercion",
                    <<Lit("parsing "), Lit("energy"), Lit(": ")>> \o r.err.msg))
             ELSE [st EXCEPT !.rec.Minutes = r.f]
    [] columnName = "Calories Burned" ->
         LET r == parseFloat(v)
         IN  IF r.err # NilErr
             THEN Fail(st, i, Errorf("coercion",
                    <<Lit("parsing "), Lit("caffeine"), Lit(": ")>> \o r.err.msg))
             ELSE [st EXCEPT !.rec.CaloriesBurned = r.f]
    [] OTHER -> Unrecognized(st, i, columnName, v)

BiometricCase(st, i, columnName, v) ==
  CASE columnName = "Day" -> StageDate(st, v)
    [] columnName = "Time" -> StageTime(st, v)
    [] columnName = "Metric" -> [st EXCEPT !.rec.Metric = v]
    [] columnName = "Unit" -> [st EXCEPT !.rec.Unit = v]
    [] columnName = "Amount" ->
         IF ~Contains(v, "/")
         THEN LET r == parseFloat(v)
              IN  IF r.err # NilErr
                  THEN Fail(st, i, Errorf("coercion",
                         <<Lit("parsing "), Lit("energy"), Lit(": ")>> \o r.err.msg))
                  ELSE [st EXCEPT !.rec.Amount = r.f]
         ELSE st
    [] OTHER -> Unrecognized(st, i, columnName, v)

Case(f, st, i, columnName, v) ==
  CASE f = "ParseServingsExport" -> ServingsCase(st, i, columnName, v)
    [] f = "ParseExerciseExport" -> ExerciseCase(st, i, columnName, v)
    [] f = "ParseBiometricRecordsExport" -> BiometricCase(st, i, columnName, v)

RECURSIVE RangeRecord_Backwards(_, _, _, _, _)
RangeRecord_Backwards(f, hdrs, record, i, st) ==
  IF i > Len(record) \/ st.err # NilErr THEN st
  ELSE RangeRecord_Backwards(f, hdrs, record, i + 1,
         Case(f, st, Len(record) + 1 - i, HeaderAt(hdrs, Len(record) + 1 - i),
              record[Len(record) + 1 - i]))

\* for i, v := range record { columnName := headers[i]; switch ... }, from
\* cell i on; a failing case returns from the parse call
RECURSIVE RangeRecord(_, _, _, _, _)
RangeRecord(f, hdrs, record, i, st) ==
  IF i > Len(record) \/ st.err # NilErr THEN st
  ELSE RangeRecord(f, hdrs, record, i + 1,
                   Case(f, st, i, HeaderAt(hdrs, i), record[i]))

\* the timeStr the entry points hand to parseDateTime
DefaultTime(timeStr) ==
  IF timeStr = <<>> THEN <<"0", "0", ":", "0", "0", " ", "A", "M">>
  ELSE timeStr

TimePrefix(f) ==
  CASE f = "ParseServingsExport" -> "parsing serving time"
    [] f = "ParseExerciseExport" -> "parsing exercise time"
    [] f = "ParseBiometricRecordsExport" -> "parsing biometric time"

FreshRecord(f) ==
  CASE f = "ParseServingsExport" -> ServingRecord
    [] f = "ParseExerciseExport" -> ExerciseRecord
    [] f = "ParseBiometricRecordsExport" -> BiometricRecord

\* the body of the read loop for one data row: the decoded record, or the
\* error the call returns
\* serving.RecordedTime, err = parseDateTime(...), r being its result
Stamp(f, st, r) ==
  IF r.err # NilErr
  THEN [rec |-> st.rec, err |-> Wrap(TimePrefix(f), r.err), at |-> 0]
  ELSE [rec |-> [st.rec EXCEPT !.RecordedTime = r.t], err |-> NilErr, at |-> 0]

\* the end of a row, st being the row state the cell loop left
EndOfRow(f, st, loc) ==
  IF st.err # NilErr THEN [rec |-> st.rec, err |-> st.err, at |-> st.at]
  ELSE Stamp(f, st, parseDateTime(st.date, DefaultTime(st.timeStr),
                                  IF loc = "nil" THEN "UTC" ELSE loc))

DecodeRow(f, hdrs, record, loc) ==
  EndOfRow(f, RangeRecord(f, hdrs, record, 1, RowState(FreshRecord(f))), loc)

\* headers := make(map[int]string); for i, v := range record { headers[i] = v }
IndexHeaders(record) == [i \in 1..Len(record) |-> record[i]]

\* what a call returns
Return(records, err) == [records |-> records, err |-> err]

NilRecords == [isNil |-> TRUE, recs |-> <<>>]
Records(recs) == [isNil |-> FALSE, recs |-> recs]
NoReturn == Return(NilRecords, NilErr)

ReturnNil_Partial(err) == Return(Records(out), err)

\* return nil, err
ReturnNil(err) == Return(NilRecords, err)

append_Front(s, e) == <<e>> \o s

\* servings = append(servings, serving)
append(s, e) == Append(s, e)

\* the error of a failed r.Read(): malformed quoting, or a row whose number
\* of fields differs from the first row's
ReadErr == Errorf("csv", <<Lit("record on line: wrong number of fields or bad quoting")>>)

\* the read loop over the data rows k.. of a table, records so far in acc;
\* tail is what the reader returns after the last row: "EOF" or "error"
RECURSIVE ReadLoop(_, _, _, _, _, _, _)
ReadLoop(f, hdrs, table, k, tail, loc, acc) ==
  IF k > Len(table)
  THEN (IF tail = "EOF" THEN Return(Records(acc), NilErr)
        ELSE Return(NilRecords, ReadErr))
  ELSE LET d == DecodeRow(f, hdrs, table[k], loc)
       IN  IF d.err # NilErr THEN Return(NilRecords, d.err)
           ELSE ReadLoop(f, hdrs, table, k + 1, tail, loc, append(acc, d.rec))

\* a whole call of entry point f on the rows of table (the header row first)
ParseCall(f, table, tail, loc) ==
  IF table = <<>> THEN ReadLoop(f, <<>>, table, 1, tail, loc, <<>>)
  ELSE ReadLoop(f, IndexHeaders(table[1]), table, 2, tail, loc, <<>>)

(***************************************************************************)
(* The inputs: the entry point called, the caller's location, and what the *)
(* csv reader delivers, read by read.                                      *)
(***************************************************************************)
EntryPoints ==
  {"ParseServingsExport", "ParseExerciseExport", "ParseBiometricRecordsExport"}

Locations == {"nil", "EST"}

\* the column names header rows are drawn from, in the order of the export
\* files; "Notes" is in no vocabulary
Columns(f) ==
  CASE f = "ParseServingsExport" ->
         <<"Day", "Time", "Amount", "Energy (kcal)", "Notes">>
    [] f = "ParseExerciseExport" ->
         <<"Day", "Time", "Minutes", "Calories Burned", "Notes">>
    [] f = "ParseBiometricRecordsExport" ->
         <<"Day", "Time", "Amount", "Unit", "Notes">>

Str_date == <<"2", "0", "2", "3", "-", "0", "5", "-", "0", "1">>
Str_time == <<"1", "4", ":", "3", "0">>
Str_5 == <<"5">>
Str_abc == <<"a", "b", "c">>
Str_5g == <<"5", " ", "g">>
Str_5gg == <<"5", " ", " ", "g">>
Str_ag == <<"a", " ", "g">>
Str_bp == <<"1", "2", "0", "/", "8", "0">>
Str_kg == <<"k", "g">>

\* the cell strings data rows are drawn from, by the column they stand in
\* (the date of a row is empty under a header without "Day")
Cells(f, columnName) ==
  CASE columnName = "Day" -> {Str_date}
    [] columnName = "Time" -> {Str_time, <<>>}
    [] columnName = "Amount" /\ f = "ParseServingsExport" ->
         {<<>>, Str_5g, Str_5gg, Str_ag, Str_abc}
    [] columnName = "Amount" /\ f = "ParseBiometricRecordsExport" ->
         {<<>>, Str_5, Str_bp, Str_abc}
    [] columnName \in {"Energy (kcal)", "Minutes", "Calories Burned"} ->
         {<<>>, Str_5, Str_abc}
    [] columnName = "Unit" -> {Str_kg, <<>>}
    [] OTHER -> {Str_abc, <<>>}

Reverse(s) == [i \in 1..Len(s) |-> s[Len(s) + 1 - i]]

\* the rows of n column names, repeats included, that keep the order of
\* Columns(f) from its k-th name on
RECURSIVE Ordered(_, _, _)
Ordered(f, n, k) ==
  IF n = 0 THEN {<<>>}
  ELSE UNION {{<<Columns(f)[j]>> \o h : h \in Ordered(f, n - 1, j)} :
                j \in k..Len(Columns(f))}

\* header rows: the columns in the order of the export, or in the reverse
\* order, so that every two columns come in both orders
HeaderRows(f, n) == Ordered(f, n, 1) \cup {Reverse(h) : h \in Ordered(f, n, 1)}

RECURSIVE DataRows(_, _)
DataRows(f, names) ==
  IF names = <<>> THEN {<<>>}
  ELSE {<<c>> \o r : c \in Cells(f, Head(names)), r \in DataRows(f, Tail(names))}

Init ==
  /\ fn \in EntryPoints
  /\ tz \in Locations
  /\ location = tz
  /\ pc = "loop"
  /\ lineNum = 0
  /\ headers = <<>>
  /\ input = <<>>
  /\ out = <<>>
  /\ ret = NoReturn

\* r.Read() returns io.EOF: break, and return the records
ReadEOF ==
  /\ pc = "loop"
  /\ pc' = "done"
  /\ ret' = Return(Records(out), NilErr)
  /\ UNCHANGED <<fn, tz, location, lineNum, headers, input, out>>

\* r.Read() returns another error: return nil, err
ReadError ==
  /\ pc = "loop"
  /\ pc' = "done"
  /\ ret' = ReturnNil(ReadErr)
  /\ UNCHANGED <<fn, tz, location, lineNum, headers, input, out>>

\* r.Read() returns the first row: index all the headers
ReadHeader ==
  /\ pc = "loop"
  /\ lineNum = 0
  /\ \E n \in 1..MaxCols : \E record \in HeaderRows(fn, n) :
       /\ headers' = IndexHeaders(record)
       /\ input' = Append(input, record)
  /\ lineNum' = lineNum + 1
  /\ UNCHANGED <<fn, tz, location, pc, out, ret>>

\* the rest of the iteration, d being the decoding of the row
Decoded(d) ==
  IF d.err # NilErr
  THEN /\ pc' = "done"
       /\ ret' = ReturnNil(d.err)
       /\ out' = out
       /\ location' = IF d.at = 0 /\ location = "nil" THEN "UTC" ELSE location
  ELSE /\ pc' = pc
       /\ ret' = ret
       /\ out' = append(out, d.rec)
       /\ location' = IF location = "nil" THEN "UTC" ELSE location

\* r.Read() returns a data row: decode it and append the record, or return
\* nil and the error.  The tables read have at most MaxCols columns and
\* MaxRows data rows, and at most MaxCols + 1 columns and data rows together
ReadRow ==
  /\ pc = "loop"
  /\ lineNum >= 1
  /\ lineNum <= MaxRows
  /\ Len(headers) + lineNum <= MaxCols + 1
  /\ \E record \in DataRows(fn, headers) :
       /\ input' = Append(input, record)
       /\ Decoded(DecodeRow(fn, headers, record, location))
  /\ lineNum' = lineNum + 1
  /\ UNCHANGED <<fn, tz, headers>>

Iteration == ReadEOF \/ ReadError \/ ReadHeader \/ ReadRow

ParseServingsExport == fn = "ParseServingsExport" /\ Iteration

ParseExerciseExport == fn = "ParseExerciseExport" /\ Iteration

ParseBiometricRecordsExport == fn = "ParseBiometricRecordsExport" /\ Iteration

Next == ParseServingsExport \/ ParseExerciseExport \/ ParseBiometricRecordsExport

Spec == Init /\ [][Next]_vars

(***************************************************************************)
(* Properties.                                                             *)
(***************************************************************************)
Done == pc = "done"
Failed == Done /\ ret.err # NilErr
Succeeded == Done /\ ret.err = NilErr

\* the data rows read so far
DataRowsRead == IF input = <<>> THEN <<>> ELSE Tail(input)
\* the row read last, when it is a data row
HasRow == Len(input) >= 2
LastRow == input[Len(input)]
\* the last data row was decoded into the last record of out
LastDecoded == HasRow /\ Len(out) = Len(input) - 1
LastRecord == out[Len(out)]
\* what the reader returned after the rows of input, in a finished call
Tail_ == IF ret.err.kind = "csv" THEN "error" ELSE "EOF"

\* C1: a call that fails returns no record collection (nil) with its error,
\* however many rows were decoded before; and a call fails whenever one of
\* the rows it read fails to decode or a read fails
C1_NoPartialResult ==
  Done =>
    /\ (ret.err # NilErr => ret.records = NilRecords)
    /\ ((\E k \in 2..Len(input) :
           DecodeRow(fn, headers, input[k], tz).err # NilErr)
          => ret.err # NilErr /\ ret.records = NilRecords)

C1_Witness ==
  /\ Failed
  /\ Len(out) >= 1
  /\ ret.err.kind \in {"format", "coercion", "time"}

\* C2: a call that succeeds on a header row and n data rows returns n
\* records, the i-th being the decoding of the i-th data row
C2_RowOrder ==
  Succeeded =>
    /\ ~ret.records.isNil
    /\ Len(ret.records.recs) = Len(DataRowsRead)
    /\ \A i \in 1..Len(DataRowsRead) :
         LET d == DecodeRow(fn, IndexHeaders(input[1]), DataRowsRead[i], tz)
         IN  d.err = NilErr /\ ret.records.recs[i] = d.rec

C2_Witness ==
  /\ Succeeded
  /\ Len(ret.records.recs) = 2
  /\ ret.records.recs[1] # ret.records.recs[2]

\* the positions of the header row that carry the column name c
Positions(c) == {i \in DOMAIN headers : headers[i] = c}
Rightmost(S) == CHOOSE i \in S : \A j \in S : j <= i
\* the cell of the last row in the rightmost column named c; "" without one
Staged(c) ==
  IF Positions(c) = {} THEN <<>> ELSE LastRow[Rightmost(Positions(c))]
\* the decoding of the last row: its record, or its error and the position
\* of the cell that raised it
LastD == DecodeRow(fn, headers, LastRow, tz)
Zone == IF tz = "nil" THEN "UTC" ELSE tz
HasSlash(v) == \E k \in 1..Len(v) : v[k] = "/"
HasSpace(v) == \E k \in 1..Len(v) : v[k] = " "
FirstSpace(v, k) == k \in 1..Len(v) /\ v[k] = " " /\ \A j \in 1..(k - 1) : v[j] # " "
Mentions(err, v) == \E k \in 1..Len(err.msg) : err.msg[k].raw = v

\* the numeric columns of each family and the record field each fills
NumericColumns(f) ==
  CASE f = "ParseServingsExport" -> {"Amount"} \cup NutrientColumns
    [] f = "ParseExerciseExport" -> {"Minutes", "Calories Burned"}
    [] f = "ParseBiometricRecordsExport" -> {"Amount"}

FieldOf(f, c) ==
  CASE f = "ParseServingsExport" /\ c = "Amount" -> "QuantityValue"
    [] f = "ParseServingsExport" /\ c \in NutrientColumns -> NutrientCase(c)[3]
    [] c = "Minutes" -> "Minutes"
    [] c = "Calories Burned" -> "CaloriesBurned"
    [] f = "ParseBiometricRecordsExport" /\ c = "Amount" -> "Amount"

\* the column names each family recognizes
Vocabulary(f) ==
  CASE f = "ParseServingsExport" ->
         {"Day", "Time", "Group", "Food Name", "Amount", "Category"}
           \cup NutrientColumns
    [] f = "ParseExerciseExport" ->
         {"Day", "Time", "Exercise", "Minutes", "Calories Burned"}
    [] f = "ParseBiometricRecordsExport" ->
         {"Day", "Time", "Metric", "Unit", "Amount"}

\* C3 (as claimed): a row with a valid Day and an empty or absent Time is
\* decoded without a timestamp error, to 00:00 of that day in the caller's
\* zone, UTC without one
C3_MidnightDefault ==
  (HasRow /\ Staged("Day") = Str_date /\ Staged("Time") = <<>>) =>
    /\ ret.err.kind # "time"
    /\ (ret.err.kind \notin {"format", "coercion"} =>
          /\ LastDecoded
          /\ LastRecord.RecordedTime =
               [year |-> 2023, month |-> 5, day |-> 1, hour |-> 0, min |-> 0,
                loc |-> Zone])

\* C4 (as claimed): an empty cell of any numeric column, the nutrition
\* "Amount" included, raises no error and leaves its field 0
C4_EmptyIsZero_Claimed ==
  HasRow =>
    \A i \in DOMAIN headers :
      (headers[i] \in NumericColumns(fn) /\ LastRow[i] = <<>>) =>
        /\ LastD.at # i
        /\ (LastDecoded => LastRecord[FieldOf(fn, headers[i])] = ZeroFloat)

\* C4 (amended): an empty cell of a numeric column other than the nutrition
\* "Amount" raises no error, and leaves its field 0 when it is the rightmost
\* column of that name; an empty nutrition "Amount" cell fails the call with
\* the amount format error
C4_EmptyIsZero ==
  HasRow =>
    \A i \in DOMAIN headers :
      (headers[i] \in NumericColumns(fn) /\ LastRow[i] = <<>>) =>
        IF fn = "ParseServingsExport" /\ headers[i] = "Amount"
        THEN /\ Failed
             /\ LastD.at \in 1..i
             /\ (LastD.at = i => ret.err.kind = "format")
        ELSE /\ LastD.at # i
             /\ (LastDecoded /\ i = Rightmost(Positions(headers[i]))
                   => LastRecord[FieldOf(fn, headers[i])] = ZeroFloat)

C4_Witness ==
  /\ LastDecoded
  /\ \E i \in DOMAIN headers :
       /\ headers[i] \in NumericColumns(fn)
       /\ LastRow[i] = <<>>
       /\ LastRecord[FieldOf(fn, headers[i])] = ZeroFloat
  /\ \E i \in DOMAIN headers :
       /\ headers[i] \in NumericColumns(fn)
       /\ LastRecord[FieldOf(fn, headers[i])] # ZeroFloat

\* the words that name a column in an error message: the column name, the
\* record field, and for a nutrient its common name
Names(f, c) ==
  {c, FieldOf(f, c)}
    \cup (IF f = "ParseServingsExport" /\ c \in NutrientColumns
          THEN {NutrientCase(c)[2]} ELSE {})
    \cup (IF f = "ParseServingsExport" /\ c = "Amount"
          THEN {"quantity value", "amount"} ELSE {})
    \cup (IF c = "Minutes" THEN {"minutes"} ELSE {})
    \cup (IF c = "Calories Burned" THEN {"calories burned", "calories"} ELSE {})
    \cup (IF f = "ParseBiometricRecordsExport" /\ c = "Amount"
          THEN {"amount"} ELSE {})

\* the offending string of a cell: the cell, or the numeric part of a
\* composite "value unit" cell
Offending(v) == {v} \cup {SubSeq(v, 1, k - 1) : k \in {j \in 1..Len(v) : FirstSpace(v, j)}}

\* C5 (as claimed): the error of a failed numeric coercion names the column
\* of the offending cell and contains the offending raw string
C5_ErrorAttribution ==
  (Failed /\ ret.err.kind = "coercion") =>
    LET i == LastD.at
    IN  /\ \E k \in 1..Len(ret.err.msg) :
             ret.err.msg[k].lit \in Names(fn, headers[i])
        /\ \E v \in Offending(LastRow[i]) : Mentions(ret.err, v)

Digit(n) == CHOOSE c \in Digits : DigitVal(c) = n
Whole(n) == [m |-> n, e |-> 0]

\* C6 (as claimed): a nutrition "Amount" cell <number><spaces><unit> gives the
\* number and the unit text after the whole run of spaces; a cell without a
\* separator fails with a format error carrying the cell
C6_AmountSplit_Claimed ==
  (fn = "ParseServingsExport" /\ HasRow /\ Positions("Amount") # {}) =>
    LET i == Rightmost(Positions("Amount"))
        v == LastRow[i]
    IN  /\ \A n \in 0..9 : \A s \in 1..2 : \A u \in {<<"g">>} :
             (v = <<Digit(n)>> \o [j \in 1..s |-> " "] \o u) =>
               /\ LastD.at # i
               /\ (LastDecoded => /\ LastRecord.QuantityValue = Whole(n)
                                  /\ LastRecord.QuantityUnits = u)
        /\ ~HasSpace(v) =>
             /\ Failed
             /\ LastD.at \in 1..i
             /\ (LastD.at = i => ret.err.kind = "format" /\ Mentions(ret.err, v))

\* C6 (amended): the cell is split at its first space character only: the
\* number is the text before it and the unit is all the text after that one
\* space, further spaces included; a cell without a space fails with a
\* format error carrying the cell
C6_AmountSplit ==
  (fn = "ParseServingsExport" /\ HasRow /\ Positions("Amount") # {}) =>
    LET i == Rightmost(Positions("Amount"))
        v == LastRow[i]
    IN  /\ \A k \in 1..Len(v) : \A n \in 0..9 :
             (FirstSpace(v, k) /\ SubSeq(v, 1, k - 1) = <<Digit(n)>>) =>
               /\ LastD.at # i
               /\ (LastDecoded =>
                     /\ LastRecord.QuantityValue = Whole(n)
                     /\ LastRecord.QuantityUnits = SubSeq(v, k + 1, Len(v)))
        /\ ~HasSpace(v) =>
             /\ Failed
             /\ LastD.at \in 1..i
             /\ (LastD.at = i => ret.err.kind = "format" /\ Mentions(ret.err, v))

C6_Witness ==
  /\ fn = "ParseServingsExport"
  /\ LastDecoded
  /\ Staged("Amount") = Str_5gg
  /\ LastRecord.QuantityValue = Whole(5)
  /\ LastRecord.QuantityUnits = <<" ", "g">>

\* C7 (as claimed): a biometric row with an "Amount" cell containing "/"
\* raises no error at that cell and its record's Amount is 0
C7_SlashAmount_Claimed ==
  (fn = "ParseBiometricRecordsExport" /\ HasRow) =>
    \A i \in Positions("Amount") :
      HasSlash(LastRow[i]) =>
        /\ LastD.at # i
        /\ (LastDecoded => LastRecord.Amount = ZeroFloat)

\* the "Amount" positions of the last row whose cell has no "/"
Plain == {i \in Positions("Amount") : ~HasSlash(LastRow[i])}

\* C7 (amended): an "Amount" cell containing "/" raises no error and leaves
\* Amount as it is: the record's Amount is the number of the rightmost
\* "Amount" cell without "/", and 0 when the row has none (so 0 whenever
\* the header has one "Amount" column)
C7_SlashAmount ==
  (fn = "ParseBiometricRecordsExport" /\ HasRow) =>
    \A i \in Positions("Amount") :
      HasSlash(LastRow[i]) =>
        /\ LastD.at # i
        /\ (LastDecoded =>
              LastRecord.Amount =
                IF Plain = {} THEN ZeroFloat
                ELSE IF LastRow[Rightmost(Plain)] = <<>> THEN ZeroFloat
                ELSE Whole(Num(LastRow[Rightmost(Plain)], 1,
                               Len(LastRow[Rightmost(Plain)]))))

C7_Witness ==
  /\ fn = "ParseBiometricRecordsExport"
  /\ LastDecoded
  /\ Cardinality(Positions("Amount")) = 1
  /\ Staged("Amount") = Str_bp
  /\ LastRecord.Amount = ZeroFloat

\* the cells of a row at the positions of the header row hdr whose column
\* names are in the set known
RECURSIVE Keep(_, _, _, _)
Keep(row, hdr, known, i) ==
  IF i > Len(row) THEN <<>>
  ELSE (IF hdr[i] \in known THEN <<row[i]>> ELSE <<>>)
         \o Keep(row, hdr, known, i + 1)

\* the table without its unrecognized columns
StripUnknown(f, table) ==
  [k \in DOMAIN table |-> Keep(table[k], table[1], Vocabulary(f), 1)]

\* C8: columns whose name is not in the family's vocabulary change nothing:
\* a finished call returns what the call on the table without them returns,
\* the same records and the same error or absence of error
C8_UnknownColumns ==
  Done => ret = ParseCall(fn, StripUnknown(fn, input), Tail_, tz)

C8_Witness ==
  /\ Succeeded
  /\ Len(ret.records.recs) >= 1
  /\ \E i \in DOMAIN headers :
       /\ headers[i] \notin Vocabulary(fn)
       /\ \E j \in DOMAIN headers : j > i /\ headers[j] \in Vocabulary(fn)
       /\ LastRow[i] # <<>>

\* the permutations of the set S, as sequences
RECURSIVE Perms(_)
Perms(S) ==
  IF S = {} THEN {<<>>}
  ELSE UNION {{<<x>> \o p : p \in Perms(S \ {x})} : x \in S}

Permute(table, p) ==
  [k \in DOMAIN table |-> [i \in DOMAIN table[k] |-> table[k][p[i]]]]

Distinct(hdr) == \A a, b \in DOMAIN hdr : a # b => hdr[a] # hdr[b]

\* C9: with pairwise distinct column names, permuting the columns of the
\* header row and of every data row alike changes neither whether the call
\* succeeds nor, when it does, the records it returns
C9_ColumnOrder ==
  (Done /\ input # <<>> /\ Distinct(input[1])) =>
    \A p \in Perms(DOMAIN input[1]) :
      LET r == ParseCall(fn, Permute(input, p), Tail_, tz)
      IN  /\ (r.err = NilErr) <=> (ret.err = NilErr)
          /\ (ret.err = NilErr => r.records = ret.records)

C9_Witness ==
  /\ Succeeded
  /\ Len(ret.records.recs) >= 1
  /\ Distinct(headers)
  /\ Len(headers) >= 3
  /\ \E a, b \in DOMAIN headers : a < b /\ headers[a] = "Time" /\ headers[b] = "Day"

\* the value a recognized column c binds from the cell v, as the fields of
\* the record rec
Bound(f, c, v, rec) ==
  CASE c \in {"Day", "Time"} ->
         rec.RecordedTime = parseDateTime(Staged("Day"), Staged("Time"), tz).t
    [] f = "ParseServingsExport" /\ c = "Amount" ->
         \E k \in 1..Len(v) :
           /\ FirstSpace(v, k)
           /\ rec.QuantityValue = parseFloat(SubSeq(v, 1, k - 1)).f
           /\ rec.QuantityUnits = SubSeq(v, k + 1, Len(v))
    [] c \in NumericColumns(f) /\ ~(f = "ParseServingsExport" /\ c = "Amount") ->
         rec[FieldOf(f, c)] = IF HasSlash(v) THEN ZeroFloat ELSE parseFloat(v).f
    [] c = "Group" -> rec.Group = v
    [] c = "Food Name" -> rec.FoodName = v
    [] c = "Category" -> rec.Category = v
    [] c = "Exercise" -> rec.Exercise = v
    [] c = "Metric" -> rec.Metric = v
    [] c = "Unit" -> rec.Unit = v

Repeated == {c \in Vocabulary(fn) : Cardinality(Positions(c)) >= 2}

\* C10 (as claimed): when a recognized column name is repeated in the header
\* and the row decodes, its field holds the value of the rightmost of these
\* columns, 0 for a biometric "Amount" whose rightmost cell contains "/"
C10_LaterWins_Claimed ==
  LastDecoded =>
    \A c \in Repeated : Bound(fn, c, LastRow[Rightmost(Positions(c))], LastRecord)

\* C10 (amended): the same, except that a biometric "Amount" cell containing
\* "/" overwrites nothing: Amount holds the value of the rightmost "Amount"
\* cell without "/", and 0 when every "Amount" cell of the row contains "/"
C10_LaterWins ==
  LastDecoded =>
    \A c \in Repeated :
      IF fn = "ParseBiometricRecordsExport" /\ c = "Amount"
      THEN IF Plain = {} THEN LastRecord.Amount = ZeroFloat
           ELSE Bound(fn, c, LastRow[Rightmost(Plain)], LastRecord)
      ELSE Bound(fn, c, LastRow[Rightmost(Positions(c))], LastRecord)

C10_Witness ==
  /\ LastDecoded
  /\ \E c \in Repeated \ {"Day", "Time"} :
       \E i \in Positions(c) :
         /\ i # Rightmost(Positions(c))
         /\ LastRow[i] # LastRow[Rightmost(Positions(c))]
         /\ ~Bound(fn, c, LastRow[i], LastRecord)

====
